---- MODULE Spec2Model ----
(***************************************************************************)
(* Product catalogue of the online-store backend (app/routers/products.py, *)
(* app/models/products.py, app/models/categories.py).                      *)
(*                                                                         *)
(* The store is the products table and the categories table.  Every HTTP   *)
(* handler is one action: it reads the store, possibly writes it, and      *)
(* leaves its HTTP response in resp.  Return hands the response to the     *)
(* client and frees the server for the next call.                          *)
(*                                                                         *)
(* SpecConcurrent runs get_all_products as its two statements, the count   *)
(* and the page, each reading the rows committed at that moment, with the  *)
(* write handlers committing in between.  rpc and rresp are that request's *)
(* position and answer; seen is the history of the products table since    *)
(* the request started.                                                    *)
(*                                                                         *)
(* files is the media directory (the paths, relative to BASE_DIR, of the   *)
(* image files in it) and issued counts the file names generated so far:   *)
(* the n-th uuid4 is the name n.  Image sizes are in MiB.  Sellers upload  *)
(* images in SpecImages only.                                              *)
(*                                                                         *)
(* Optional values (Python's `x | None`) are sets: {} is None, {v} is v.   *)
(* Texts are sequences of tokens; the token " " is a run of whitespace.    *)
(* Prices are in whole currency units.                                     *)
(***************************************************************************)
EXTENDS Integers, Sequences, FiniteSets

VARIABLES products, categories, files, issued, pc, resp, rpc, rresp, seen

vars == <<products, categories, files, issued, pc, resp, rpc, rresp, seen>>

\* ------------------------------------------------------------------ bounds

\* Rows the products table may hold (create_product is capped here).
MaxProducts == 2

\* Largest page number a client asks for.
MaxPage == 3

\* Largest page_size a client asks for (the code allows up to 100).
MaxPageSize == 2

\* Most optional filters one request supplies.
MaxFilters == 2

\* Most optional filters a request supplies when writes interleave with it.
MaxConcurrentFilters == 1

\* Most commits that change the products table during one request.
MaxInterleavedWrites == 1

\* Image files written in one run (save_product_image is capped here).
MaxImages == 2

\* ------------------------------------------------------------ input domains

None == {}

Some(v) == {v}

Get(o) == CHOOSE v \in o : TRUE

\* Accounts with the seller role (app.auth.get_current_seller supplies one).
Sellers == {1, 2}

\* Rows of the categories table.
CategoryIds == {1, 2}

\* A category id no row has.
MissingCategory == Cardinality(CategoryIds) + 1

\* The forms a seller submits (ProductCreate.as_form): name, description,
\* price, stock, category_id.
ProductForms ==
    { [name |-> <<"Bag">>, description |-> None,
       price |-> 1, stock |-> 1, category_id |-> 1],
      [name |-> <<"Wallet">>, description |-> Some(<<"the", " ", "bag">>),
       price |-> 2, stock |-> 0, category_id |-> 2],
      [name |-> <<"Wallet">>, description |-> None,
       price |-> 2, stock |-> 1, category_id |-> MissingCategory] }

\* MAX_IMAGE_SIZE = 2 * 1024 * 1024 bytes, in MiB.
MAX_IMAGE_SIZE == 2

ALLOWED_IMAGE_TYPES == {"image/jpeg", "image/png", "image/webp"}

\* The images a seller uploads: content type and size.
Images ==
    { [content_type |-> "image/png", size |-> MAX_IMAGE_SIZE],
      [content_type |-> "text/plain", size |-> 1],
      [content_type |-> "image/jpeg", size |-> MAX_IMAGE_SIZE + 1] }

\* The search strings a client sends (min_length=1, so never empty).
SearchStrings == { <<" ">>, <<" ", "Bag">>, <<"wallet", " ", "bag">> }

\* The query parameters of GET /products/ (page >= 1, 1 <= page_size <= 100,
\* prices >= 0, the rest optional).
AllRequests ==
    [ page : 1..MaxPage,
      page_size : 1..MaxPageSize,
      category_id : {None, Some(1)},
      search : {None} \cup {Some(s) : s \in SearchStrings},
      min_price : {None, Some(2)},
      max_price : {None, Some(1), Some(2)},
      in_stock : {None, Some(TRUE), Some(FALSE)},
      seller_id : {None, Some(1)} ]

\* How many of the optional filters a request supplies.
Supplied(req) ==
    Cardinality({f \in {"category_id", "search", "min_price", "max_price",
                        "in_stock", "seller_id"} : req[f] # None})

\* The requests clients send.
Requests == {req \in AllRequests : Supplied(req) <= MaxFilters}

\* ------------------------------------------------------- full-text search

\* The 'english' configuration folds case.
Lexeme(w) ==
    CASE w = "Bag" -> "bag"
      [] w = "Wallet" -> "wallet"
      [] OTHER -> w

\* The 'english' configuration drops stop words; whitespace is no word.
StopWords == {"the", " "}

\* to_tsvector('english', text): the lexemes of the text.
to_tsvector(text) == {Lexeme(text[i]) : i \in DOMAIN text} \ StopWords

\* coalesce(x, '').
coalesce(o) == IF o = None THEN <<>> ELSE Get(o)

\* The generated column Product.tsv:
\* setweight(to_tsvector(name), 'A') || setweight(to_tsvector(description), 'B').
ComputedTsv(name, description) ==
    [A |-> to_tsvector(name), B |-> to_tsvector(coalesce(description))]

RECURSIVE lstrip(_)
lstrip(s) == IF s # <<>> /\ Head(s) = " " THEN lstrip(Tail(s)) ELSE s

RECURSIVE rstrip(_)
rstrip(s) ==
    IF s # <<>> /\ s[Len(s)] = " " THEN rstrip(SubSeq(s, 1, Len(s) - 1)) ELSE s

\* str.strip().
strip(s) == rstrip(lstrip(s))

\* websearch_to_tsquery('english', text): the conjunction of its lexemes.
websearch_to_tsquery(text) == to_tsvector(text)

\* tsv @@ query.
TsMatch(tsv, query) == query # {} /\ query \subseteq (tsv.A \cup tsv.B)

\* Weight of one lexeme's occurrences, in tenths (A = 1.0, B = 0.4).
LexemeWeight(tsv, l) ==
    (IF l \in tsv.A THEN 10 ELSE 0) + (IF l \in tsv.B THEN 4 ELSE 0)

RECURSIVE SumWeights(_, _)
SumWeights(tsv, query) ==
    IF query = {} THEN 0
    ELSE LET l == CHOOSE x \in query : TRUE
         IN LexemeWeight(tsv, l) + SumWeights(tsv, query \ {l})

\* ts_rank_cd(tsv, query), in tenths.
ts_rank_cd(tsv, query) == SumWeights(tsv, query)

\* ------------------------------------------------------------------- state

NoResp == [op |-> "none"]

Init ==
    /\ products = <<>>
    /\ categories = [c \in CategoryIds |-> [is_active |-> TRUE]]
    /\ files = {}
    /\ issued = 0
    /\ pc = "idle"
    /\ resp = NoResp
    /\ rpc = "idle"
    /\ rresp = NoResp
    /\ seen = {}

\* select(CategoryModel).where(id == cid, is_active == True) finds a row.
ActiveCategory(cid) == cid \in DOMAIN categories /\ categories[cid].is_active

\* Mutant of ActiveProduct: the is_active condition is left out.
ActiveProductAnyRow(pid) == pid \in DOMAIN products

\* select(ProductModel).where(id == pid, is_active == True) finds a row.
ActiveProduct(pid) == pid \in DOMAIN products /\ products[pid].is_active

\* -------------------------------------------------------- get_all_products

\* Mutant of PriceRangeInvalid: equal bounds are rejected too.
PriceRangeInvalidOrEqual(req) ==
    /\ req.min_price # None
    /\ req.max_price # None
    /\ Get(req.min_price) >= Get(req.max_price)

\* The price-range check that opens the handler.
PriceRangeInvalid(req) ==
    /\ req.min_price # None
    /\ req.max_price # None
    /\ Get(req.min_price) > Get(req.max_price)

\* The filters list before the search block: is_active, and one predicate
\* for every parameter that is not None.
BaseFilters(p, req) ==
    /\ p.is_active = TRUE
    /\ (req.category_id # None => p.category_id = Get(req.category_id))
    /\ (req.min_price # None => p.price >= Get(req.min_price))
    /\ (req.max_price # None => p.price <= Get(req.max_price))
    /\ (req.in_stock # None =>
            IF Get(req.in_stock) THEN p.stock > 0 ELSE p.stock = 0)
    /\ (req.seller_id # None => p.seller_id = Get(req.seller_id))

\* search_value = search.strip(), when search is given.
SearchValue(req) == IF req.search = None THEN <<>> ELSE strip(Get(req.search))

\* Mutant of HasRank: the search term is not stripped before the test.
HasRankUnstripped(req) == req.search # None /\ Get(req.search) # <<>>

\* rank_col is not None: a search term that is non-empty once stripped.
HasRank(req) == req.search # None /\ SearchValue(req) # <<>>

\* ts_query of the request.
TsQuery(req) == websearch_to_tsquery(SearchValue(req))

\* The filters list after the search block.
Filters(p, req) ==
    /\ BaseFilters(p, req)
    /\ (HasRank(req) => TsMatch(p.tsv, TsQuery(req)))

\* The ids of the rows of store that a where(*filters) selects.
Selected(store, req) == {i \in DOMAIN store : Filters(store[i], req)}

\* Mutant of TotalStmt: total_stmt is not rebuilt after the search predicate
\* is appended.
TotalStmtBeforeSearch(store, req) ==
    Cardinality({i \in DOMAIN store : BaseFilters(store[i], req)})

\* db.scalar(total_stmt) or 0.
TotalStmt(store, req) == Cardinality(Selected(store, req))

\* order_by(ProductModel.id): the ids of S, ascending.
RECURSIVE OrderById(_)
OrderById(S) ==
    IF S = {} THEN <<>>
    ELSE LET m == CHOOSE x \in S : \A y \in S : x <= y
         IN <<m>> \o OrderById(S \ {m})

\* Mutant of OrderByRank: desc() is left out, the lowest rank comes first.
RECURSIVE OrderByRankAscending(_, _, _)
OrderByRankAscending(store, query, S) ==
    IF S = {} THEN <<>>
    ELSE LET rank(i) == ts_rank_cd(store[i].tsv, query)
             m == CHOOSE x \in S : \A y \in S :
                      \/ rank(x) < rank(y)
                      \/ rank(x) = rank(y) /\ x <= y
         IN <<m>> \o OrderByRankAscending(store, query, S \ {m})

\* order_by(desc(rank_col), ProductModel.id): the ids of S by rank,
\* highest first, and by id within one rank.
RECURSIVE OrderByRank(_, _, _)
OrderByRank(store, query, S) ==
    IF S = {} THEN <<>>
    ELSE LET rank(i) == ts_rank_cd(store[i].tsv, query)
             m == CHOOSE x \in S : \A y \in S :
                      \/ rank(x) > rank(y)
                      \/ rank(x) = rank(y) /\ x <= y
         IN <<m>> \o OrderByRank(store, query, S \ {m})

Min(a, b) == IF a <= b THEN a ELSE b

\* .offset(o).limit(n) of an ordered result.
OffsetLimit(seq, o, n) == SubSeq(seq, o + 1, Min(o + n, Len(seq)))

\* .limit(n) of an ordered result.
Limit(seq, n) == SubSeq(seq, 1, Min(n, Len(seq)))

\* The ids products_stmt returns, in order: the ranked branch pages with
\* offset and limit, the other branch orders by id and applies limit only.
ProductsStmt(store, req) ==
    IF HasRank(req)
    THEN OffsetLimit(OrderByRank(store, TsQuery(req), Selected(store, req)),
                     (req.page - 1) * req.page_size, req.page_size)
    ELSE Limit(OrderById(Selected(store, req)), req.page_size)

\* The rows of a result.
Rows(store, ids) == [k \in DOMAIN ids |-> store[ids[k]]]

\* The response of get_all_products on store: 400 before any query when the
\* price range is inverted, else the page and the count.
GetAllProductsResponse(store, req) ==
    IF PriceRangeInvalid(req)
    THEN [op |-> "get_all_products", req |-> req, status |-> 400, queries |-> 0]
    ELSE [op |-> "get_all_products", req |-> req, status |-> 200, queries |-> 2,
          items |-> Rows(store, ProductsStmt(store, req)),
          total |-> TotalStmt(store, req),
          page |-> req.page, page_size |-> req.page_size]

\* GET /products/
get_all_products(req) ==
    /\ pc = "idle"
    /\ resp' = GetAllProductsResponse(products, req)
    /\ pc' = "done"
    /\ UNCHANGED <<products, categories, files, issued>>

\* ----------------------------------------------------------- create_product

\* ------------------------------------------------------------ product images

\* The URL save_product_image returns for a file name:
\* f"/media/products/{file_name}".
ImageUrl(file_name) == <<"/", "media", "/", "products", "/", file_name>>

\* url.lstrip("/").
RECURSIVE lstripSlash(_)
lstripSlash(url) ==
    IF url # <<>> /\ Head(url) = "/" THEN lstripSlash(Tail(url)) ELSE url

\* MEDIA_ROOT / file_name, relative to BASE_DIR.
MediaPath(file_name) == <<"media", "/", "products", "/", file_name>>

\* BASE_DIR / url.lstrip("/"), relative to BASE_DIR.
UrlPath(url) == lstripSlash(url)

\* The status save_product_image ends with: 400 for a content type that is
\* not allowed, 400 for more than MAX_IMAGE_SIZE, else the file is written.
SaveImageStatus(image) ==
    IF image.content_type \notin ALLOWED_IMAGE_TYPES THEN 400
    ELSE IF image.size > MAX_IMAGE_SIZE THEN 400
    ELSE 200

\* The media directory after remove_product_image(url): nothing happens
\* for no URL or a file that is not there, else the file is unlinked.
RemoveProductImage(dir, url) ==
    IF url = None THEN dir
    ELSE IF UrlPath(Get(url)) \in dir THEN dir \ {UrlPath(Get(url))}
    ELSE dir

\* ----------------------------------------------------------- create_product

\* The row INSERT stores: the form, the seller, the image URL, the column
\* defaults and the generated tsv.
NewRow(id, form, seller, image_url) ==
    [id |-> id, name |-> form.name, description |-> form.description,
     price |-> form.price, stock |-> form.stock, is_active |-> TRUE,
     seller_id |-> seller, category_id |-> form.category_id,
     image_url |-> image_url,
     tsv |-> ComputedTsv(form.name, form.description)]

\* POST /products/: 400 unless the form's category is active, then the image
\* (if any) is saved, which may answer 400, then the row is inserted.
create_product(form, image, current_user) ==
    /\ pc = "idle"
    /\ Len(products) < MaxProducts
    /\ image # None => issued < MaxImages
    /\ IF ~ActiveCategory(form.category_id)
       THEN /\ resp' = [op |-> "create_product", form |-> form, status |-> 400]
            /\ UNCHANGED <<products, files, issued>>
       ELSE IF image # None /\ SaveImageStatus(Get(image)) # 200
       THEN /\ resp' = [op |-> "create_product", form |-> form, status |-> 400,
                        detail |-> "image"]
            /\ UNCHANGED <<products, files, issued>>
       ELSE LET file_name == issued + 1
                image_url == IF image = None THEN None
                             ELSE Some(ImageUrl(file_name))
                row == NewRow(Len(products) + 1, form, current_user, image_url)
            IN /\ products' = Append(products, row)
               /\ files' = IF image = None THEN files
                           ELSE files \cup {MediaPath(file_name)}
               /\ issued' = IF image = None THEN issued ELSE file_name
               /\ resp' = [op |-> "create_product", form |-> form,
                           status |-> 201, product |-> row]
    /\ pc' = "done"
    /\ UNCHANGED categories

\* ------------------------------------------------------------ read handlers

\* GET /products/category/{category_id}: 404 unless the category is active,
\* else its active products (the statement has no ORDER BY: a set of rows).
get_products_by_category(category_id) ==
    /\ pc = "idle"
    /\ resp' =
         IF ~ActiveCategory(category_id)
         THEN [op |-> "get_products_by_category", category_id |-> category_id,
               status |-> 404]
         ELSE [op |-> "get_products_by_category", category_id |-> category_id,
               status |-> 200,
               items |-> {products[i] : i \in
                            {j \in DOMAIN products :
                               /\ products[j].category_id = category_id
                               /\ products[j].is_active = TRUE}}]
    /\ pc' = "done"
    /\ UNCHANGED <<products, categories, files, issued>>

\* GET /products/{product_id}: 404 unless the product is active, 400 unless
\* its category is active, else the row.
get_product(product_id) ==
    /\ pc = "idle"
    /\ resp' =
         IF ~ActiveProduct(product_id)
         THEN [op |-> "get_product", product_id |-> product_id, status |-> 404]
         ELSE IF ~ActiveCategory(products[product_id].category_id)
         THEN [op |-> "get_product", product_id |-> product_id, status |-> 400]
         ELSE [op |-> "get_product", product_id |-> product_id, status |-> 200,
               product |-> products[product_id]]
    /\ pc' = "done"
    /\ UNCHANGED <<products, categories, files, issued>>

\* ----------------------------------------------------------- update_product

\* Mutant of UpdatedRow: the search vector is left as it was.
UpdatedRowStaleTsv(row, new_data) ==
    [row EXCEPT !.name = new_data.name,
                !.description = new_data.description,
                !.price = new_data.price,
                !.stock = new_data.stock,
                !.category_id = new_data.category_id]

\* The row after UPDATE products SET **new_data WHERE id = product_id: the
\* form's columns are replaced and the generated tsv is recomputed by the
\* same statement; id, is_active and seller_id are not in the form.
UpdatedRow(row, new_data) ==
    [row EXCEPT !.name = new_data.name,
                !.description = new_data.description,
                !.price = new_data.price,
                !.stock = new_data.stock,
                !.category_id = new_data.category_id,
                !.tsv = ComputedTsv(new_data.name, new_data.description)]

\* The status update_product answers with: 404 unless the product is active,
\* 403 unless it is the caller's, 400 unless the category the product is in
\* now is active, 500 when the UPDATE breaks the category foreign key.
UpdateStatus(product_id, new_data, current_user) ==
    IF ~ActiveProduct(product_id) THEN 404
    ELSE IF products[product_id].seller_id # current_user THEN 403
    ELSE IF ~ActiveCategory(products[product_id].category_id) THEN 400
    ELSE IF new_data.category_id \notin DOMAIN categories THEN 500
    ELSE 200

\* PUT /products/{product_id}: after the checks and the UPDATE, a new image
\* has the old file removed and is then saved; a rejected image answers 400
\* and the UPDATE is never committed.
update_product(product_id, new_data, image, current_user) ==
    /\ pc = "idle"
    /\ image # None => issued < MaxImages
    /\ LET st == UpdateStatus(product_id, new_data, current_user)
       IN IF st # 200
          THEN /\ UNCHANGED <<products, files, issued>>
               /\ resp' = [op |-> "update_product", product_id |-> product_id,
                           form |-> new_data, status |-> st]
          ELSE IF image = None
          THEN LET row == UpdatedRow(products[product_id], new_data)
               IN /\ products' = [products EXCEPT ![product_id] = row]
                  /\ UNCHANGED <<files, issued>>
                  /\ resp' = [op |-> "update_product", product_id |-> product_id,
                              form |-> new_data, status |-> 200, product |-> row]
          ELSE LET removed ==
                     RemoveProductImage(files, products[product_id].image_url)
                   file_name == issued + 1
                   row == [UpdatedRow(products[product_id], new_data)
                             EXCEPT !.image_url = Some(ImageUrl(file_name))]
               IN IF SaveImageStatus(Get(image)) # 200
                  THEN /\ UNCHANGED <<products, issued>>
                       /\ files' = removed
                       /\ resp' = [op |-> "update_product",
                                   product_id |-> product_id, form |-> new_data,
                                   status |-> 400, detail |-> "image"]
                  ELSE /\ products' = [products EXCEPT ![product_id] = row]
                       /\ files' = removed \cup {MediaPath(file_name)}
                       /\ issued' = file_name
                       /\ resp' = [op |-> "update_product",
                                   product_id |-> product_id, form |-> new_data,
                                   status |-> 200, product |-> row]
    /\ pc' = "done"
    /\ UNCHANGED categories

\* ----------------------------------------------------------- delete_product

\* The status delete_product answers with.
DeleteStatus(product_id, current_user) ==
    IF ~ActiveProduct(product_id) THEN 404
    ELSE IF products[product_id].seller_id # current_user THEN 403
    ELSE IF ~ActiveCategory(products[product_id].category_id) THEN 400
    ELSE 200

\* DELETE /products/{product_id}: the row stays, is_active becomes False,
\* and the image file is removed.
delete_product(product_id, current_user) ==
    /\ pc = "idle"
    /\ LET st == DeleteStatus(product_id, current_user)
       IN IF st = 200
          THEN LET row == [products[product_id] EXCEPT !.is_active = FALSE]
               IN /\ products' = [products EXCEPT ![product_id] = row]
                  /\ files' = RemoveProductImage(files, row.image_url)
                  /\ resp' = [op |-> "delete_product", product_id |-> product_id,
                              status |-> 200, product |-> row]
          ELSE /\ UNCHANGED <<products, files>>
               /\ resp' = [op |-> "delete_product", product_id |-> product_id,
                           status |-> st]
    /\ pc' = "done"
    /\ UNCHANGED <<categories, issued>>

\* --------------------------------------------------------------- categories

\* A category is deactivated: its active flag is cleared, its products are
\* left as they are.
DeactivateCategory(category_id) ==
    /\ pc = "idle"
    /\ ActiveCategory(category_id)
    /\ categories' = [categories EXCEPT ![category_id].is_active = FALSE]
    /\ resp' = [op |-> "deactivate_category", category_id |-> category_id,
                status |-> 200]
    /\ pc' = "done"
    /\ UNCHANGED <<products, files, issued>>

\* The response reaches the client; the next call may start.
Return ==
    /\ pc = "done"
    /\ pc' = "idle"
    /\ resp' = NoResp
    /\ UNCHANGED <<products, categories, files, issued>>

\* Product ids a client names: every id the table may hold.
ProductIds == 1..MaxProducts

\* No get_all_products request is between its two statements.
NoSplitRequest == UNCHANGED <<rpc, rresp, seen>>

Next ==
    \/ \E req \in Requests : get_all_products(req) /\ NoSplitRequest
    \/ \E c \in CategoryIds \cup {MissingCategory} :
          get_products_by_category(c) /\ NoSplitRequest
    \/ \E i \in ProductIds : get_product(i) /\ NoSplitRequest
    \/ \E form \in ProductForms, u \in Sellers :
          create_product(form, None, u) /\ NoSplitRequest
    \/ \E i \in ProductIds, form \in ProductForms, u \in Sellers :
          update_product(i, form, None, u) /\ NoSplitRequest
    \/ \E i \in ProductIds, u \in Sellers :
          delete_product(i, u) /\ NoSplitRequest
    \/ \E c \in CategoryIds : DeactivateCategory(c) /\ NoSplitRequest
    \/ Return /\ NoSplitRequest

Spec == Init /\ [][Next]_vars

\* ------------------------------------- get_all_products, statement by statement

\* The requests a client sends while sellers write.
ConcurrentRequests == {req \in Requests : Supplied(req) <= MaxConcurrentFilters}

\* The request starts: the price range is checked, then total_stmt is built
\* and run against the rows committed now.
CountStep(req) ==
    /\ rpc = "idle"
    /\ IF PriceRangeInvalid(req)
       THEN /\ rresp' = GetAllProductsResponse(products, req)
            /\ rpc' = "done"
       ELSE /\ rresp' = [op |-> "get_all_products", req |-> req,
                         total |-> TotalStmt(products, req)]
            /\ rpc' = "counted"
    /\ seen' = {products}
    /\ UNCHANGED <<products, categories, files, issued, pc, resp>>

\* products_stmt is run against the rows committed now, and the handler
\* returns the page with the total counted before.
PageStep ==
    /\ rpc = "counted"
    /\ rresp' = [op |-> "get_all_products", req |-> rresp.req, status |-> 200,
                 queries |-> 2,
                 items |-> Rows(products, ProductsStmt(products, rresp.req)),
                 total |-> rresp.total,
                 page |-> rresp.req.page, page_size |-> rresp.req.page_size]
    /\ rpc' = "done"
    /\ UNCHANGED <<products, categories, files, issued, pc, resp, seen>>

\* The page reaches the client.
ReaderReturn ==
    /\ rpc = "done"
    /\ rpc' = "idle"
    /\ rresp' = NoResp
    /\ seen' = {}
    /\ UNCHANGED <<products, categories, files, issued, pc, resp>>

\* A write handler commits beside the request: what it leaves in the table
\* joins the history of a request that is between its two statements.  A
\* finished request is handed to its client before the next commit.
Beside ==
    /\ rpc # "done"
    /\ UNCHANGED <<rpc, rresp>>
    /\ seen' = IF rpc = "counted" THEN seen \cup {products'} ELSE seen
    /\ Cardinality(seen') <= MaxInterleavedWrites + 1

NextConcurrent ==
    \/ \E req \in ConcurrentRequests : CountStep(req)
    \/ PageStep
    \/ ReaderReturn
    \/ \E form \in ProductForms, u \in Sellers :
          create_product(form, None, u) /\ Beside
    \/ \E i \in ProductIds, form \in ProductForms, u \in Sellers :
          update_product(i, form, None, u) /\ Beside
    \/ \E i \in ProductIds, u \in Sellers : delete_product(i, u) /\ Beside
    \/ Return /\ Beside

SpecConcurrent == Init /\ [][NextConcurrent]_vars

\* ------------------------------------------------------ sellers with images

\* What a seller puts in the image field: nothing, or an image.
Uploads == {None} \cup {Some(image) : image \in Images}

NextImages ==
    \/ \E form \in ProductForms, image \in Uploads, u \in Sellers :
          create_product(form, image, u) /\ NoSplitRequest
    \/ \E i \in ProductIds, form \in ProductForms, image \in Uploads,
          u \in Sellers :
          update_product(i, form, image, u) /\ NoSplitRequest
    \/ \E i \in ProductIds, u \in Sellers :
          delete_product(i, u) /\ NoSplitRequest
    \/ \E i \in ProductIds : get_product(i) /\ NoSplitRequest
    \/ Return /\ NoSplitRequest

SpecImages == Init /\ [][NextImages]_vars

\* ------------------------------------------------- what the claims speak of

\* A product satisfies every filter the request supplies, and is active.
Satisfies(p, req) ==
    /\ p.is_active
    /\ \A c \in req.category_id : p.category_id = c
    /\ \A lo \in req.min_price : lo <= p.price
    /\ \A hi \in req.max_price : p.price <= hi
    /\ \A b \in req.in_stock : IF b THEN p.stock > 0 ELSE p.stock = 0
    /\ \A u \in req.seller_id : p.seller_id = u
    /\ \A t \in req.search :
          strip(t) # <<>> => TsMatch(p.tsv, websearch_to_tsquery(strip(t)))

\* The ids of the products in the store that match the request.
Matching(req) == {i \in DOMAIN products : Satisfies(products[i], req)}

\* The request carries a search term that is not blank.
Searching(req) == \E t \in req.search : strip(t) # <<>>

\* The request carries a search term that is blank.
BlankSearch(req) == \E t \in req.search : strip(t) = <<>>

\* Both price bounds are given and the lower exceeds the upper.
Inverted(req) == \E lo \in req.min_price, hi \in req.max_price : lo > hi

\* A get_all_products call has just answered.
Answered == pc = "done" /\ resp.op = "get_all_products"

\* A get_all_products call has just answered with a page.
Listed == Answered /\ resp.status = 200

Offset(req) == (req.page - 1) * req.page_size

\* i comes before j in relevance order for the request's search term.
Outranks(i, j, req) ==
    LET q == websearch_to_tsquery(strip(Get(req.search)))
        ri == ts_rank_cd(products[i].tsv, q)
        rj == ts_rank_cd(products[j].tsv, q)
    IN ri > rj \/ (ri = rj /\ i < j)

\* items is the window of length page_size at Offset(req) of the matching
\* products in the order Before: the k-th item has exactly Offset + k - 1
\* matching products before it, and the window is as long as it can be.
IsWindow(items, req, Before(_, _)) ==
    LET M == Matching(req)
        rest == Cardinality(M) - Offset(req)
        want == IF rest <= 0 THEN 0
                ELSE IF rest < req.page_size THEN rest ELSE req.page_size
    IN /\ Len(items) = want
       /\ \A k \in DOMAIN items :
             /\ items[k].id \in M
             /\ items[k] = products[items[k].id]
             /\ Cardinality({j \in M : Before(j, items[k].id)})
                  = Offset(req) + k - 1

ById(i, j) == i < j

\* C1: without a search term, the page returned for (page, page_size) is the
\* matching products at positions (page-1)*page_size .. +page_size-1 in
\* ascending id order.
C1_IdentifierPageWindow ==
    (Listed /\ ~Searching(resp.req)) => IsWindow(resp.items, resp.req, ById)

\* C2: a page whose offset is at or beyond the number of matching products is
\* answered without error, with no items and with the true total.
C2_PageBeyondLastIsEmpty ==
    (Answered /\ ~Inverted(resp.req)
       /\ Offset(resp.req) >= Cardinality(Matching(resp.req)))
    => /\ resp.status = 200
       /\ resp.items = <<>>
       /\ resp.total = Cardinality(Matching(resp.req))

\* C3: no get_all_products response holds a product whose category is
\* inactive, and total counts no such product.
C3_InactiveCategoryHidden ==
    Listed =>
      /\ \A k \in DOMAIN resp.items :
            ActiveCategory(resp.items[k].category_id)
      /\ resp.total =
            Cardinality({i \in Matching(resp.req) :
                           ActiveCategory(products[i].category_id)})

\* The rows a read handler has just returned.
ReturnedRows ==
    IF pc # "done" \/ resp.status # 200 THEN {}
    ELSE IF resp.op = "get_all_products"
         THEN {resp.items[k] : k \in DOMAIN resp.items}
    ELSE IF resp.op = "get_products_by_category" THEN resp.items
    ELSE IF resp.op = "get_product" THEN {resp.product}
    ELSE {}

\* One step keeps every row, leaves every soft-deleted row as it is, and
\* answers 404 to an update or delete of a soft-deleted row.
SoftDeleteStep ==
    /\ Len(products') >= Len(products)
    /\ \A i \in DOMAIN products :
          ~products[i].is_active => products'[i] = products[i]
    /\ (/\ pc' = "done"
        /\ resp'.op \in {"update_product", "delete_product"}
        /\ resp'.product_id \in DOMAIN products
        /\ ~products[resp'.product_id].is_active)
       => resp'.status = 404
    /\ (pc' = "done" /\ resp'.op = "delete_product" /\ resp'.status = 200)
       => /\ products[resp'.product_id].is_active
          /\ products' = [products EXCEPT
                            ![resp'.product_id].is_active = FALSE]

\* C4: delete_product keeps the row and only clears is_active; a product
\* with is_active = False is in no get_all_products,
\* get_products_by_category or get_product response, and every later
\* update or delete of it answers 404 and leaves the row unchanged.
C4_SoftDeleteIsFinal ==
    /\ [](\A r \in ReturnedRows : r.is_active /\ products[r.id].is_active)
    /\ [][SoftDeleteStep]_vars

\* C4 witness: an update of a soft-deleted product has just answered 404.
C4_Witness ==
    /\ pc = "done"
    /\ resp.op = "update_product"
    /\ resp.status = 404
    /\ resp.product_id \in DOMAIN products
    /\ ~products[resp.product_id].is_active
    /\ \E i \in DOMAIN products : products[i].is_active

\* C5: a request with min_price > max_price is rejected with 400 before any
\* store query and carries no result; with equal bounds or a single bound the
\* request is answered.
C5_InvertedPriceRangeRejected ==
    Answered =>
      IF Inverted(resp.req)
      THEN /\ resp.status = 400
           /\ resp.queries = 0
           /\ DOMAIN resp \cap {"items", "total"} = {}
      ELSE /\ resp.status = 200
           /\ \A k \in DOMAIN resp.items :
                 /\ \A lo \in resp.req.min_price : lo <= resp.items[k].price
                 /\ \A hi \in resp.req.max_price : resp.items[k].price <= hi

\* C5 witness: an inverted range has just been rejected while the store
\* holds a product priced inside the swapped range.
C5_Witness ==
    /\ Answered
    /\ Inverted(resp.req)
    /\ resp.status = 400
    /\ \E i \in DOMAIN products :
          /\ products[i].is_active
          /\ \A lo \in resp.req.min_price, hi \in resp.req.max_price :
                hi <= products[i].price /\ products[i].price <= lo

\* C6: every returned item is a stored product that is active and satisfies
\* every supplied filter, and total is the number of stored products that
\* do, whatever page and page_size are.
C6_CountAndPageSamePredicates ==
    Listed =>
      /\ \A k \in DOMAIN resp.items :
            /\ resp.items[k].id \in DOMAIN products
            /\ resp.items[k] = products[resp.items[k].id]
            /\ Satisfies(resp.items[k], resp.req)
      /\ resp.total = Cardinality(Matching(resp.req))
      /\ \A pg \in 1..MaxPage, sz \in 1..MaxPageSize :
            resp.total =
              Cardinality(Matching([resp.req EXCEPT !.page = pg,
                                                    !.page_size = sz]))

\* C6 witness: a search with one more filter returned an item and counted
\* fewer products than are active.
C6_Witness ==
    /\ Listed
    /\ Searching(resp.req)
    /\ Supplied(resp.req) = 2
    /\ resp.items # <<>>
    /\ resp.total < Cardinality({i \in DOMAIN products : products[i].is_active})

\* C7: a blank search term is no error and changes nothing: the answer is
\* the answer to the same request without search, in id order and with no
\* text predicate applied.
C7_BlankSearchIsNoSearch ==
    (Answered /\ BlankSearch(resp.req)) =>
      LET plain == [resp.req EXCEPT !.search = None]
          ref == GetAllProductsResponse(products, plain)
      IN /\ resp.status = ref.status
         /\ resp.status = 200 =>
              /\ resp.items = ref.items
              /\ resp.total = ref.total
              /\ resp.total = Cardinality(Matching(plain))
              /\ \A k \in DOMAIN resp.items :
                    /\ Satisfies(resp.items[k], plain)
                    /\ \A j \in DOMAIN resp.items :
                          j < k => resp.items[j].id < resp.items[k].id

\* C7 witness: a blank search has just returned two products, neither of
\* which holds any word of a search.
C7_Witness ==
    /\ Listed
    /\ BlankSearch(resp.req)
    /\ Len(resp.items) = 2
    /\ resp.total = 2

\* C8: with a non-blank search term every returned item matches the term,
\* and the page is the window at (page-1)*page_size of the matching products
\* ordered by descending rank, then ascending id.
C8_RankedPageWindow ==
    (Listed /\ Searching(resp.req)) =>
      LET before(i, j) == Outranks(i, j, resp.req)
      IN /\ IsWindow(resp.items, resp.req, before)
         /\ \A k \in DOMAIN resp.items :
               /\ TsMatch(resp.items[k].tsv,
                          websearch_to_tsquery(strip(Get(resp.req.search))))
               /\ \A j \in DOMAIN resp.items :
                     j < k => before(resp.items[j].id, resp.items[k].id)

\* C8 witness: the second page of a search holds the lower-ranked product,
\* which has the smaller id.
C8_Witness ==
    /\ Listed
    /\ Searching(resp.req)
    /\ resp.req.page = 2
    /\ resp.req.page_size = 1
    /\ resp.total = 2
    /\ Len(resp.items) = 1
    /\ resp.items[1].id = 1

\* The lexemes of a text field.
Words(text) == {Lexeme(text[i]) : i \in DOMAIN text} \ StopWords

\* C9: every stored product's search vector is the derivation from its
\* current name (weight A) and description (weight B), A weighing more than
\* B; after an update a one-word search matches the product exactly when
\* the word is in the new name or the new description.
C9_VectorFollowsText ==
    /\ \A i \in DOMAIN products :
          LET p == products[i]
              d == IF p.description = None THEN <<>> ELSE Get(p.description)
          IN /\ p.tsv = [A |-> Words(p.name), B |-> Words(d)]
             /\ \A a \in p.tsv.A \ p.tsv.B, b \in p.tsv.B \ p.tsv.A :
                   ts_rank_cd(p.tsv, {a}) > ts_rank_cd(p.tsv, {b})
    /\ (pc = "done" /\ resp.op = "update_product" /\ resp.status = 200) =>
          LET f == resp.form
              d == IF f.description = None THEN <<>> ELSE Get(f.description)
          IN \A w \in {"bag", "wallet", "the"} :
                TsMatch(products[resp.product_id].tsv, {w})
                  <=> w \in Words(f.name) \cup Words(d)

\* C9 witness: an update has just put a description on a product whose
\* category the form moved, and the description's word is in the vector.
C9_Witness ==
    /\ pc = "done"
    /\ resp.op = "update_product"
    /\ resp.status = 200
    /\ resp.form.description # None
    /\ "bag" \in products[resp.product_id].tsv.B
    /\ "bag" \notin products[resp.product_id].tsv.A

\* C10: a create or update that succeeds stores the category the form names
\* and that category is active; a create or update whose form names a
\* missing or inactive category is rejected and changes no product row.
C10_WrittenCategoryIsActive ==
    [][(pc' = "done" /\ resp'.op \in {"create_product", "update_product"}) =>
         IF ActiveCategory(resp'.form.category_id)
         THEN resp'.status \in {200, 201} =>
                resp'.product.category_id = resp'.form.category_id
         ELSE resp'.status \notin {200, 201} /\ products' = products]_vars

\* The ids of the products of store that match the request.
MatchingIn(store, req) == {i \in DOMAIN store : Satisfies(store[i], req)}

\* i comes before j in the order the request asks for, in store: by
\* descending rank then id with a search term, by id without.
ComesBefore(store, i, j, req) ==
    IF Searching(req)
    THEN LET q == websearch_to_tsquery(strip(Get(req.search)))
             ri == ts_rank_cd(store[i].tsv, q)
             rj == ts_rank_cd(store[j].tsv, q)
         IN ri > rj \/ (ri = rj /\ i < j)
    ELSE i < j

\* items is the page the request asks for of the rows of store.
IsPageOf(store, items, req) ==
    LET M == MatchingIn(store, req)
        rest == Cardinality(M) - Offset(req)
        want == IF rest <= 0 THEN 0
                ELSE IF rest < req.page_size THEN rest ELSE req.page_size
    IN /\ Len(items) = want
       /\ \A k \in DOMAIN items :
             /\ items[k].id \in M
             /\ items[k] = store[items[k].id]
             /\ Cardinality({j \in M : ComesBefore(store, j, items[k].id, req)})
                  = Offset(req) + k - 1

\* C11: when writes commit between the count and the page of one
\* get_all_products request, total is the number of matching products of
\* some state of the table during the request, and items is the correct
\* page of some state of the table during the request.
C11_EachPartCorrectAtSomeMoment ==
    (rpc = "done" /\ rresp.status = 200) =>
      /\ \E s \in seen :
            rresp.total = Cardinality(MatchingIn(s, rresp.req))
      /\ \E s \in seen : IsPageOf(s, rresp.items, rresp.req)


\* The image file of every active product with an image is in storage.
ImagesStored ==
    \A i \in DOMAIN products :
       (products[i].is_active /\ products[i].image_url # None) =>
          UrlPath(Get(products[i].image_url)) \in files

\* An update_product call that is answered 400 for its image.
ImageRejectedUpdate ==
    /\ pc = "idle"
    /\ pc' = "done"
    /\ resp'.op = "update_product"
    /\ resp'.status = 400
    /\ "detail" \in DOMAIN resp'

\* C12: after any sequence of create_product, update_product and
\* delete_product calls, failing ones included, every active product whose
\* image_url is set refers to an image file that is in storage, and an
\* update_product call rejected for the content type or the size of its new
\* image leaves the product row and the stored image file as they were.
C12_ImageFileOutlivesRejectedUpdate ==
    /\ []ImagesStored
    /\ [][ImageRejectedUpdate => (products' = products /\ files' = files)]_vars

====
